---- MODULE Spec2Model ----
(***************************************************************************)
(* A model of the stride-db data layer: the PowerSync/Supabase connector   *)
(* (uploadData, fetchCredentials) and the Project and TaskType             *)
(* repositories.                                                           *)
(***************************************************************************)
EXTENDS Integers, Sequences, FiniteSets, TLC

VARIABLES
    \* ---- sync connector (SupabaseConnector.uploadData) ----
    written,    \* number of operations the application has written so far
    open,       \* operations of the local write transaction being written
    queue,      \* the sync engine's durable queue of pending CRUD transactions
    nextTx,     \* the engine's transaction counter (identity of a batch)
    pc,         \* position of the one running uploadData call
    tx,         \* the transaction the current/last uploadData call fetched
    idx,        \* index in tx.crud of the operation the loop is at
    calls,      \* remote calls of the current/last uploadData call, in order
    upResult,   \* how the last uploadData call ended
    completed,  \* ids of the transactions marked complete, in order
    prev,       \* summary of the uploadData call before the current/last one
    \* ---- sync connector (SupabaseConnector.fetchCredentials) ----
    powersyncUrl, \* SupabaseConnectorConfig.powersyncUrl, set by the constructor
    session,    \* the auth backend's current session (or None)
    credResult, \* how the last fetchCredentials call ended
    \* ---- repositories (ProjectRepository, TaskTypeRepository) ----
    projects,   \* rows of table projects
    taskTypes,  \* rows of table task_types
    clock,      \* the last timestamp now() has returned
    nextId,     \* the next id generateId() returns
    ret,        \* the last repository call and how it ended
    running,    \* per caller: its setDefault/reorder call and the statement it is at
    tasks,      \* rows of table tasks
    \* ---- auth provider (SupabaseAuthProvider) ----
    authRet,    \* the last auth provider call, the backend's answer and how it ended
    subscription, \* state of the onAuthStateChange subscription of onAuthChange
    events,     \* the backend's auth transitions since onAuthChange was called
    delivered,  \* the values the callback of onAuthChange was invoked with
    \* ---- remote store (the tables behind supabase.from(table)) ----
    remote,     \* per row key (table, id): the stored row, or Nothing
    original    \* the remote store as it was before the first uploadData call

syncVars == <<written, open, queue, nextTx, pc, tx, idx, calls, upResult, completed, prev>>
authVars == <<powersyncUrl, session, credResult>>
repoVars == <<projects, taskTypes, tasks, clock, nextId, ret>>
callVars == <<running>>
providerVars == <<authRet, subscription, events, delivered>>
storeVars == <<remote, original>>
restVars == <<callVars, providerVars, storeVars>>
vars == <<written, open, queue, nextTx, pc, tx, idx, calls, upResult, completed, prev,
          powersyncUrl, session, credResult,
          projects, taskTypes, clock, nextId, ret,
          running, tasks, authRet, subscription, events, delivered,
          remote, original>>

-----------------------------------------------------------------------------
(* Bounds of the model *)

\* total number of row operations the application ever writes locally
MaxOps == 3
\* number of ids generateId() hands out
MaxIds == 2
\* number of timestamps now() hands out
MaxClock == 4

-----------------------------------------------------------------------------
(* Values *)

None == "none"
NoError == "ok"
RemoteErrors == {"e1", "e2"}

\* the rows (table, id) local writes touch
Rows == {<<"projects", "A">>, <<"projects", "B">>, <<"tasks", "A">>}
\* opData: the changed columns of a PUT/PATCH; a DELETE carries none
OpData == {"d1"}

\* CrudEntry of the sync engine: op is PUT, PATCH or DELETE
CrudEntry ==
    { [op |-> k, table |-> r[1], id |-> r[2], opData |-> d] :
        k \in {"PUT", "PATCH"}, r \in Rows, d \in OpData }
    \cup { [op |-> "DELETE", table |-> r[1], id |-> r[2], opData |-> None] :
        r \in Rows }

\* sync endpoints a connector may be configured with
Endpoints == {"https://ps1", "https://ps2"}

\* errors the auth backend may report
AuthErrors == {"a1", "a2"}
\* an optional value: <<>> is null/undefined, <<v>> is the value v
Nothing == <<>>
Some(v) == <<v>>
\* access tokens and expiry instants (epoch seconds; Undefined: not given)
Tokens == {"t1", "t2", "t3"}
Undefined == -1
Expiries == {Undefined, 0, 5}
Sessions == [access_token : Tokens, expires_at : Expiries]

NoTx == [id |-> 0, crud |-> <<>>]

-----------------------------------------------------------------------------
(* SupabaseConnector.uploadData *)

\* a faulty dispatch: the PATCH case issues an upsert, as the PUT case does
RemoteRequest_PatchAsUpsert(op) ==
    CASE op.op \in {"PUT", "PATCH"} ->
            [method |-> "upsert", table |-> op.table,
             values |-> [record |-> op.opData, id |-> op.id],
             onConflict |-> "id", eqId |-> None]
      [] op.op = "DELETE" ->
            [method |-> "delete", table |-> op.table,
             values |-> [record |-> None, id |-> None],
             onConflict |-> None, eqId |-> op.id]

\* the remote request one CRUD entry becomes (the switch on op.op)
RemoteRequest(op) ==
    CASE op.op = "PUT" ->
            [method |-> "upsert", table |-> op.table,
             values |-> [record |-> op.opData, id |-> op.id],
             onConflict |-> "id", eqId |-> None]
      [] op.op = "PATCH" ->
            [method |-> "update", table |-> op.table,
             values |-> [record |-> op.opData, id |-> None],
             onConflict |-> None, eqId |-> op.id]
      [] op.op = "DELETE" ->
            [method |-> "delete", table |-> op.table,
             values |-> [record |-> None, id |-> None],
             onConflict |-> None, eqId |-> op.id]

\* the application writes one row inside a local write transaction
LocalWrite ==
    /\ written < MaxOps
    /\ written' = written + 1
    /\ \E e \in CrudEntry : open' = Append(open, e)
    /\ UNCHANGED <<queue, nextTx, pc, tx, idx, calls, upResult, completed, prev>>

\* the local write transaction commits; the engine queues it as one batch
LocalCommit ==
    /\ open # <<>>
    /\ queue' = Append(queue, [id |-> nextTx, crud |-> open])
    /\ nextTx' = nextTx + 1
    /\ open' = <<>>
    /\ UNCHANGED <<written, pc, tx, idx, calls, upResult, completed, prev>>

\* a faulty uploadData that lacks the `if (!transaction) return` check
UploadBegin_NoNullCheck ==
    /\ pc = "idle"
    /\ calls' = <<>>
    /\ prev' = [status |-> upResult.status, txid |-> tx.id, ncalls |-> Len(calls)]
    /\ tx' = IF queue = <<>> THEN NoTx ELSE Head(queue)
    /\ idx' = 1
    /\ pc' = "loop"
    /\ upResult' = [status |-> "running", error |-> NoError]
    /\ UNCHANGED <<written, open, queue, nextTx, completed>>

\* uploadData, lines 80-84: fetch the next pending transaction; none: return
UploadBegin ==
    /\ pc = "idle"
    /\ calls' = <<>>
    /\ prev' = [status |-> upResult.status, txid |-> tx.id, ncalls |-> Len(calls)]
    /\ IF queue = <<>>
         THEN /\ tx' = NoTx
              /\ idx' = 0
              /\ pc' = "idle"
              /\ upResult' = [status |-> "returned", error |-> NoError]
         ELSE /\ tx' = Head(queue)
              /\ idx' = 1
              /\ pc' = "loop"
              /\ upResult' = [status |-> "running", error |-> NoError]
    /\ UNCHANGED <<written, open, queue, nextTx, completed>>

\* a faulty loop body that ignores the error the remote store reports
UploadOp_Swallow ==
    /\ pc = "loop"
    /\ idx <= Len(tx.crud)
    /\ \E err \in {NoError} \cup RemoteErrors :
        calls' = Append(calls, [request |-> RemoteRequest(tx.crud[idx]),
                                error |-> err])
    /\ idx' = idx + 1
    /\ UNCHANGED <<written, open, queue, nextTx, pc, tx, upResult, completed, prev>>

\* a faulty catch block that marks the transaction complete before rethrowing
UploadOp_CompleteOnError ==
    /\ pc = "loop"
    /\ idx <= Len(tx.crud)
    /\ \E err \in {NoError} \cup RemoteErrors :
        /\ calls' = Append(calls, [request |-> RemoteRequest(tx.crud[idx]),
                                   error |-> err])
        /\ IF err # NoError
             THEN /\ pc' = "idle"
                  /\ upResult' = [status |-> "threw", error |-> err]
                  /\ idx' = idx
                  /\ completed' = Append(completed, tx.id)
                  /\ queue' = SelectSeq(queue, LAMBDA b : b.id # tx.id)
             ELSE /\ pc' = "loop"
                  /\ upResult' = upResult
                  /\ idx' = idx + 1
                  /\ UNCHANGED <<queue, completed>>
    /\ UNCHANGED <<written, open, nextTx, tx, prev>>

\* uploadData, lines 87-118: one iteration of the loop; the remote store
\* answers with an error or without one; an error is thrown, logged and
\* rethrown by the catch block (lines 122-126)
UploadOp ==
    /\ pc = "loop"
    /\ idx <= Len(tx.crud)
    /\ \E err \in {NoError} \cup RemoteErrors :
        /\ calls' = Append(calls, [request |-> RemoteRequest(tx.crud[idx]),
                                   error |-> err])
        /\ IF err # NoError
             THEN /\ pc' = "idle"
                  /\ upResult' = [status |-> "threw", error |-> err]
                  /\ idx' = idx
             ELSE /\ pc' = "loop"
                  /\ upResult' = upResult
                  /\ idx' = idx + 1
    /\ UNCHANGED <<written, open, queue, nextTx, tx, completed, prev>>

\* a faulty uploadData that calls transaction.complete() inside the loop,
\* after the first operation
UploadComplete_Early ==
    /\ pc = "loop"
    /\ idx > 1
    /\ completed' = Append(completed, tx.id)
    /\ queue' = SelectSeq(queue, LAMBDA b : b.id # tx.id)
    /\ pc' = "idle"
    /\ upResult' = [status |-> "returned", error |-> NoError]
    /\ UNCHANGED <<written, open, nextTx, tx, idx, calls, prev>>

\* uploadData, line 121: after the loop, transaction.complete(); the engine
\* removes the transaction from its queue
UploadComplete ==
    /\ pc = "loop"
    /\ idx > Len(tx.crud)
    /\ completed' = Append(completed, tx.id)
    /\ queue' = SelectSeq(queue, LAMBDA b : b.id # tx.id)
    /\ pc' = "idle"
    /\ upResult' = [status |-> "returned", error |-> NoError]
    /\ UNCHANGED <<written, open, nextTx, tx, idx, calls, prev>>

SyncInit ==
    /\ written = 0
    /\ open = <<>>
    /\ queue = <<>>
    /\ nextTx = 1
    /\ pc = "idle"
    /\ tx = NoTx
    /\ idx = 0
    /\ calls = <<>>
    /\ upResult = [status |-> "none", error |-> NoError]
    /\ completed = <<>>
    /\ prev = [status |-> "none", txid |-> 0, ncalls |-> 0]

\* the connector is constructed and never used for credentials
AuthQuiet ==
    /\ powersyncUrl = "https://ps1"
    /\ session = Nothing
    /\ credResult = Nothing

\* empty tables; no repository call made yet
RepoInit ==
    /\ projects = {}
    /\ taskTypes = {}
    /\ tasks = {}
    /\ clock = 0
    /\ nextId = 1
    /\ ret = [repo |-> "none", op |-> "none", id |-> 0,
              status |-> "none", value |-> Nothing, error |-> NoError]

\* no local write is ever made and uploadData is never called
SyncQuiet == SyncInit

\* the concurrent callers of TaskTypeRepository
Callers == {1, 2}
\* a caller that is in no setDefault or reorder call
IdleCall == [op |-> "none", pc |-> "idle", userId |-> "none", id |-> 0,
             ids |-> <<>>, i |-> 0, race |-> FALSE]

\* no setDefault or reorder call is ever made
CallsQuiet == running = [c \in Callers |-> IdleCall]

\* the auth provider is constructed and never used
ProviderQuiet ==
    /\ authRet = Nothing
    /\ subscription = [phase |-> "none", listening |-> FALSE]
    /\ events = <<>>
    /\ delivered = <<>>

\* the rows (table, id) of the remote store whose contents are tracked
StoredRows == {<<"projects", "A">>}

\* the remote store holds no tracked row and its contents are not followed
StoreQuiet ==
    /\ remote = [k \in StoredRows |-> Nothing]
    /\ original = remote

RestQuiet == CallsQuiet /\ ProviderQuiet /\ StoreQuiet

SyncNext ==
    \/ LocalWrite /\ UNCHANGED <<authVars, repoVars, restVars>>
    \/ LocalCommit /\ UNCHANGED <<authVars, repoVars, restVars>>
    \/ UploadBegin /\ UNCHANGED <<authVars, repoVars, restVars>>
    \/ UploadOp /\ UNCHANGED <<authVars, repoVars, restVars>>
    \/ UploadComplete /\ UNCHANGED <<authVars, repoVars, restVars>>

InitSync == SyncInit /\ AuthQuiet /\ RepoInit /\ RestQuiet

SpecSync == InitSync /\ [][SyncNext]_vars

-----------------------------------------------------------------------------
(* The remote store behind uploadData: what the three requests do to it *)

\* the columns of a stored row other than its id
Columns == {"x", "y"}
\* the value a column takes when an insert does not give it
ColumnDefault == "default"
\* the value local writes give a column
Written == {"v1"}
\* a row as the remote store held it before any upload
OldRow == [c \in Columns |-> "old"]

\* opData of a PUT or PATCH: the columns the local write set
ColumnData == UNION { [S -> Written] : S \in (SUBSET Columns) \ {{}} }

\* the CRUD entries of a batch on the tracked rows
StoredEntry ==
    { [op |-> k, table |-> r[1], id |-> r[2], opData |-> d] :
        k \in {"PUT", "PATCH"}, r \in StoredRows, d \in ColumnData }
    \cup { [op |-> "DELETE", table |-> r[1], id |-> r[2], opData |-> None] :
        r \in StoredRows }

\* the batches (crud of one transaction) the engine may hand to uploadData
Batches == UNION { [1..n -> StoredEntry] : n \in 1..MaxOps }

\* SET col = record.col for the columns the record gives
SetColumns(row, record) ==
    [c \in Columns |-> IF c \in DOMAIN record THEN record[c] ELSE row[c]]

\* .upsert({ ...record, id }, { onConflict: 'id' }): insert the row, the
\* columns not given taking their default; on a row with that id, set the
\* given columns of the stored row
Upsert(store, table, values) ==
    LET key == <<table, values.id>>
        base == IF store[key] = Nothing
                  THEN [c \in Columns |-> ColumnDefault]
                  ELSE store[key][1]
    IN  [store EXCEPT ![key] = Some(SetColumns(base, values.record))]

\* .update(record).eq('id', id): set the given columns of the row with
\* that id; no such row: nothing changes, and no error
Update(store, table, record, id) ==
    LET key == <<table, id>>
    IN  IF store[key] = Nothing
          THEN store
          ELSE [store EXCEPT ![key] = Some(SetColumns(store[key][1], record))]

\* .delete().eq('id', id): remove the row with that id, if there is one
Delete(store, table, id) ==
    [store EXCEPT ![<<table, id>>] = Nothing]

\* the effect of one request lines 94-116 send, once the store accepts it
ApplyRequest(store, req) ==
    CASE req.method = "upsert" -> Upsert(store, req.table, req.values)
      [] req.method = "update" ->
            Update(store, req.table, req.values.record, req.eqId)
      [] req.method = "delete" -> Delete(store, req.table, req.eqId)

\* the store answers the request UploadOp has just sent: an accepted
\* request is applied, a request answered with an error changes nothing
RemoteAnswer ==
    LET call == calls'[Len(calls')]
    IN  remote' = IF call.error = NoError
                    THEN ApplyRequest(remote, call.request)
                    ELSE remote

\* one committed batch is pending; the application writes nothing more
ReplayInit ==
    /\ \E batch \in Batches :
        /\ written = Len(batch)
        /\ queue = <<[id |-> 1, crud |-> batch]>>
    /\ open = <<>>
    /\ nextTx = 2
    /\ pc = "idle"
    /\ tx = NoTx
    /\ idx = 0
    /\ calls = <<>>
    /\ upResult = [status |-> "none", error |-> NoError]
    /\ completed = <<>>
    /\ prev = [status |-> "none", txid |-> 0, ncalls |-> 0]
    /\ original \in [StoredRows -> {Nothing, Some(OldRow)}]
    /\ remote = original

\* uploadData is called again and again until the batch is complete; no
\* one else writes to the remote store
ReplayNext ==
    \/ UploadBegin /\ UNCHANGED <<authVars, repoVars, callVars, providerVars, storeVars>>
    \/ UploadOp /\ RemoteAnswer /\ UNCHANGED <<authVars, repoVars, callVars, providerVars, original>>
    \/ UploadComplete /\ UNCHANGED <<authVars, repoVars, callVars, providerVars, storeVars>>

InitReplay == ReplayInit /\ AuthQuiet /\ RepoInit /\ CallsQuiet /\ ProviderQuiet

SpecReplay == InitReplay /\ [][ReplayNext]_vars

-----------------------------------------------------------------------------------------------------------------------------------------------------
(* SupabaseConnector.fetchCredentials *)

AuthInit ==
    /\ powersyncUrl \in Endpoints
    /\ session = Nothing
    /\ credResult = Nothing

\* the hosted auth service signs the user in or out, or refreshes the token
BackendAuthChange ==
    /\ \E s \in {Nothing} \cup { Some(x) : x \in Sessions } : session' = s
    /\ session' # session
    /\ UNCHANGED <<powersyncUrl, credResult>>

\* what auth.getSession() answers: the current session, or an error
GetSessionAnswers ==
    { [session |-> session, error |-> NoError] }
        \cup { [session |-> Nothing, error |-> e] : e \in AuthErrors }

\* session.expires_at ? new Date(session.expires_at * 1000) : undefined
ExpiresAt(s) ==
    IF s.expires_at = Undefined \/ s.expires_at = 0
    THEN Undefined
    ELSE s.expires_at * 1000

\* a faulty fetchCredentials that answers null when the lookup fails
CredentialsFor_SwallowError(answer) ==
    IF answer.error # NoError \/ answer.session = Nothing
    THEN [status |-> "returned", error |-> NoError, value |-> Nothing]
    ELSE [status |-> "returned", error |-> NoError,
          value |-> Some([endpoint |-> powersyncUrl,
                          token |-> answer.session[1].access_token,
                          expiresAt |-> ExpiresAt(answer.session[1])])]

\* fetchCredentials, lines 59-73, applied to the answer of getSession
CredentialsFor(answer) ==
    IF answer.error # NoError
    THEN [status |-> "threw", error |-> answer.error, value |-> Nothing]
    ELSE IF answer.session = Nothing
    THEN [status |-> "returned", error |-> NoError, value |-> Nothing]
    ELSE [status |-> "returned", error |-> NoError,
          value |-> Some([endpoint |-> powersyncUrl,
                          token |-> answer.session[1].access_token,
                          expiresAt |-> ExpiresAt(answer.session[1])])]

\* one fetchCredentials call
FetchCredentials ==
    /\ \E answer \in GetSessionAnswers :
         credResult' = Some([lookup |-> answer, result |-> CredentialsFor(answer)])
    /\ UNCHANGED <<powersyncUrl, session>>

AuthNext ==
    \/ BackendAuthChange /\ UNCHANGED <<syncVars, repoVars, restVars>>
    \/ FetchCredentials /\ UNCHANGED <<syncVars, repoVars, restVars>>

InitAuth == AuthInit /\ SyncQuiet /\ RepoInit /\ RestQuiet

SpecAuth == InitAuth /\ [][AuthNext]_vars

-----------------------------------------------------------------------------
(* SupabaseAuthProvider *)

\* number of auth state notifications followed while subscribed
MaxEvents == 2

\* the sessions the backend issues to this provider: one for each kind of
\* expiry (not given, zero, an instant)
IssuedSessions ==
    { s \in Sessions :
        \/ s.access_token = "t1" /\ s.expires_at = Undefined
        \/ s.access_token = "t2" /\ s.expires_at = 0
        \/ s.access_token = "t3" /\ s.expires_at = 5 }

\* mapSession, lines 50-64: the tokens and the expiry (profile left out)
MapSession(s) ==
    [accessToken |-> s.access_token,
     expiresAt |-> IF s.expires_at = Undefined \/ s.expires_at = 0
                   THEN Undefined
                   ELSE s.expires_at * 1000]

\* a provider call, the backend's answer and how the call ended
ProviderReturned(value) == [status |-> "returned", error |-> NoError, value |-> value]
ProviderThrew(error) == [status |-> "threw", error |-> error, value |-> Nothing]
ProviderCall(op, answer, result) ==
    Some([op |-> op, answer |-> answer, result |-> result])

\* session ? this.mapSession(session) : null
MappedOrNull(s) == IF s = Nothing THEN Nothing ELSE Some(MapSession(s[1]))

\* the listener onAuthChange registers, line 44, applied to the session the
\* backend passes
AuthChangeCallback(s) == MappedOrNull(s)

\* The backend tells its listeners that the auth state is now s. events is
\* the history of these notifications from the onAuthChange call to the call
\* of its teardown function; the callback runs if it is still registered.
Notify(s) ==
    /\ subscription.phase = "subscribed" => Len(events) < MaxEvents
    /\ subscription.listening => Len(delivered) <= MaxEvents
    /\ events' = IF subscription.phase = "subscribed" THEN Append(events, s) ELSE events
    /\ delivered' = IF subscription.listening
                    THEN Append(delivered, AuthChangeCallback(s))
                    ELSE delivered

\* the auth state changes without a call of this provider (a sign-in or
\* sign-out elsewhere, the client's automatic token refresh)
AuthStateChange ==
    /\ \E s \in {Nothing} \cup { Some(x) : x \in IssuedSessions } :
         /\ s # session
         /\ session' = s
         /\ Notify(s)
    /\ UNCHANGED <<powersyncUrl, credResult, authRet, subscription>>

\* what signInWithPassword answers: a session, no session, or an error
SignInAnswers ==
    { [session |-> Some(x), error |-> NoError] : x \in IssuedSessions }
        \cup { [session |-> Nothing, error |-> NoError] }
        \cup { [session |-> Nothing, error |-> e] : e \in AuthErrors }

\* signIn, lines 15-25
SignIn ==
    /\ \E answer \in SignInAnswers :
         /\ authRet' = ProviderCall("signIn", answer,
                          IF answer.error # NoError THEN ProviderThrew(answer.error)
                          ELSE IF answer.session = Nothing
                          THEN ProviderThrew("No session returned")
                          ELSE ProviderReturned(Some(MapSession(answer.session[1]))))
         /\ IF answer.error = NoError /\ answer.session # Nothing
            THEN session' = answer.session /\ Notify(answer.session)
            ELSE UNCHANGED <<session, events, delivered>>
    /\ UNCHANGED <<powersyncUrl, credResult, subscription>>

\* what auth.signOut() answers: { error }
SignOutAnswers ==
    { [session |-> Nothing, error |-> e] : e \in {NoError} \cup AuthErrors }

\* signOut, lines 27-29: the answer of auth.signOut() is not looked at
SignOut ==
    /\ \E answer \in SignOutAnswers :
         /\ authRet' = ProviderCall("signOut", answer, ProviderReturned(Nothing))
         /\ IF answer.error = NoError
            THEN session' = Nothing /\ Notify(Nothing)
            ELSE UNCHANGED <<session, events, delivered>>
    /\ UNCHANGED <<powersyncUrl, credResult, subscription>>

\* getCurrentSession, lines 31-34: only data.session of the answer is read
GetCurrentSession ==
    /\ \E answer \in GetSessionAnswers :
         authRet' = ProviderCall("getCurrentSession", answer,
                        ProviderReturned(MappedOrNull(answer.session)))
    /\ UNCHANGED <<powersyncUrl, credResult, session, subscription, events, delivered>>

\* what auth.refreshSession() answers: a renewed session, none, or an error
RefreshAnswers ==
    { [session |-> Some(x), error |-> NoError] : x \in IssuedSessions }
        \cup { [session |-> Nothing, error |-> NoError] }
        \cup { [session |-> Nothing, error |-> e] : e \in AuthErrors }

\* refreshSession, lines 36-40
RefreshSession ==
    /\ \E answer \in RefreshAnswers :
         /\ answer.session # Nothing => session # Nothing
         /\ authRet' = ProviderCall("refreshSession", answer,
                          IF answer.error # NoError THEN ProviderThrew(answer.error)
                          ELSE ProviderReturned(MappedOrNull(answer.session)))
         /\ IF answer.error = NoError /\ answer.session # Nothing
            THEN session' = answer.session /\ Notify(answer.session)
            ELSE UNCHANGED <<session, events, delivered>>
    /\ UNCHANGED <<powersyncUrl, credResult, subscription>>

\* onAuthChange, lines 42-48: registers the listener; the backend may call a
\* newly registered listener at once with the current state
OnAuthChange ==
    /\ subscription.phase = "none"
    /\ subscription' = [phase |-> "subscribed", listening |-> TRUE]
    /\ \E initial \in BOOLEAN :
         IF initial
         THEN /\ events' = <<session>>
              /\ delivered' = <<AuthChangeCallback(session)>>
         ELSE /\ events' = <<>>
              /\ delivered' = <<>>
    /\ UNCHANGED <<powersyncUrl, credResult, session, authRet>>

\* a faulty teardown function that leaves the listener registered
Teardown_StillListening ==
    /\ subscription.phase = "subscribed"
    /\ subscription' = [phase |-> "torndown", listening |-> TRUE]
    /\ UNCHANGED <<powersyncUrl, credResult, session, authRet, events, delivered>>

\* the function onAuthChange returned, line 47: subscription.unsubscribe()
Teardown ==
    /\ subscription.phase = "subscribed"
    /\ subscription' = [phase |-> "torndown", listening |-> FALSE]
    /\ UNCHANGED <<powersyncUrl, credResult, session, authRet, events, delivered>>

ProviderInit ==
    /\ powersyncUrl = "https://ps1"
    /\ session \in {Nothing} \cup { Some(x) : x \in IssuedSessions }
    /\ credResult = Nothing
    /\ ProviderQuiet

ProviderNext ==
    \/ AuthStateChange /\ UNCHANGED <<syncVars, repoVars, callVars, storeVars>>
    \/ SignIn /\ UNCHANGED <<syncVars, repoVars, callVars, storeVars>>
    \/ SignOut /\ UNCHANGED <<syncVars, repoVars, callVars, storeVars>>
    \/ GetCurrentSession /\ UNCHANGED <<syncVars, repoVars, callVars, storeVars>>
    \/ RefreshSession /\ UNCHANGED <<syncVars, repoVars, callVars, storeVars>>
    \/ OnAuthChange /\ UNCHANGED <<syncVars, repoVars, callVars, storeVars>>
    \/ Teardown /\ UNCHANGED <<syncVars, repoVars, callVars, storeVars>>

InitProvider == ProviderInit /\ SyncQuiet /\ RepoInit /\ CallsQuiet /\ StoreQuiet

SpecProvider == InitProvider /\ [][ProviderNext]_vars

-----------------------------------------------------------------------------
(* Repositories: shared utilities (db/utils) *)

\* generateId(): a new id, different from every id handed out before
GenerateId == nextId

\* now(): a timestamp later than every timestamp handed out before
Now == clock + 1

\* a row with the given columns overwritten
Apply(row, values) ==
    [c \in DOMAIN row |-> IF c \in DOMAIN values THEN values[c] ELSE row[c]]

\* a repository call (repo.op on id) and how it ended
Returned(repo, op, id, value) ==
    [repo |-> repo, op |-> op, id |-> id,
     status |-> "ok", value |-> value, error |-> NoError]
InProgress(repo, op, id) ==
    [repo |-> repo, op |-> op, id |-> id,
     status |-> "pending", value |-> Nothing, error |-> NoError]
Threw(repo, op, id, error) ==
    [repo |-> repo, op |-> op, id |-> id,
     status |-> "error", value |-> Nothing, error |-> error]

-----------------------------------------------------------------------------
(* ProjectRepository *)

\* the fields of the domain type Project other than id, and their values
ProjectFields ==
    {"workspaceId", "userId", "name", "description", "color", "completionPercentage"}
ProjectValues(f) ==
    CASE f = "workspaceId" -> {"w1"}
      [] f = "userId" -> {"u1", "u2"}
      [] f = "name" -> {"n1", "n2"}
      [] f = "description" -> {"null", "d1"}
      [] f = "color" -> {"red"}
      [] f = "completionPercentage" -> {0}

\* Omit<Project, 'id'>: the argument of create
NewProjects ==
    [workspaceId : ProjectValues("workspaceId"), userId : ProjectValues("userId"),
     name : ProjectValues("name"), description : ProjectValues("description"),
     color : ProjectValues("color"),
     completionPercentage : ProjectValues("completionPercentage")]

\* Partial<Project>: the argument of update; one field, or name and userId
\* (the key is passed as the first argument of update, never in the partial)
ProjectUpdates ==
    UNION { { [c \in {f} |-> v] : v \in ProjectValues(f) } : f \in ProjectFields }
        \cup { [name |-> n, userId |-> u] :
                 n \in ProjectValues("name"), u \in ProjectValues("userId") }

\* toDomain, lines 23-33
ProjectToDomain(row) ==
    [id |-> row.id, workspaceId |-> row.workspaceId, userId |-> row.userId,
     name |-> row.name, description |-> row.description, color |-> row.color,
     completionPercentage |-> row.completionPercentage]

\* a faulty toDbInsert that leaves the description out (stored as null)
ProjectToDbInsert_NoDescription(project, timestamp) ==
    [workspaceId |-> project.workspaceId, userId |-> project.userId,
     name |-> project.name, description |-> "null",
     color |-> project.color,
     completionPercentage |-> project.completionPercentage,
     createdAt |-> timestamp, updatedAt |-> timestamp, deleted |-> FALSE]

\* toDbInsert, lines 39-52
ProjectToDbInsert(project, timestamp) ==
    [workspaceId |-> project.workspaceId, userId |-> project.userId,
     name |-> project.name, description |-> project.description,
     color |-> project.color,
     completionPercentage |-> project.completionPercentage,
     createdAt |-> timestamp, updatedAt |-> timestamp, deleted |-> FALSE]

\* a faulty toDbUpdate that does not restamp updatedAt
ProjectToDbUpdate_NoStamp(project, timestamp) == project

\* toDbUpdate, lines 57-62: { ...project, updatedAt: now() }
ProjectToDbUpdate(project, timestamp) ==
    [c \in DOMAIN project \cup {"updatedAt"} |->
        IF c = "updatedAt" THEN timestamp ELSE project[c]]

\* findById, lines 73-78, on the table contents `table`
ProjectFindById(table, id) ==
    LET found == { r \in table : r.id = id /\ r.deleted = FALSE }
    IN  IF found = {} THEN Nothing ELSE Some(ProjectToDomain(CHOOSE r \in found : TRUE))

\* the row that values({ id, ...dbProject }) inserts
ProjectInsertRow(id, dbProject) ==
    [id |-> id, workspaceId |-> dbProject.workspaceId, userId |-> dbProject.userId,
     name |-> dbProject.name, description |-> dbProject.description,
     color |-> dbProject.color,
     completionPercentage |-> dbProject.completionPercentage,
     createdAt |-> dbProject.createdAt, updatedAt |-> dbProject.updatedAt,
     deleted |-> dbProject.deleted]

\* create, lines 108-122
ProjectCreate(project) ==
    /\ nextId <= MaxIds
    /\ clock < MaxClock
    /\ LET id == GenerateId
           row == ProjectInsertRow(id, ProjectToDbInsert(project, Now))
       IN  IF \E r \in projects : r.id = id
           THEN /\ projects' = projects
                /\ ret' = Threw("project", "create", id, "constraint")
           ELSE /\ projects' = projects \cup {row}
                /\ ret' = LET created == ProjectFindById(projects', id)
                          IN  IF created = Nothing
                              THEN Threw("project", "create", id, "Failed to create project")
                              ELSE Returned("project", "create", id, created)
    /\ nextId' = nextId + 1
    /\ clock' = clock + 1
    /\ UNCHANGED <<taskTypes, tasks>>

\* a faulty update whose where clause lacks eq(projects.deleted, false)
ProjectUpdate_NoDeletedFilter(id, updates) ==
    /\ clock < MaxClock
    /\ LET dbUpdates == ProjectToDbUpdate(updates, Now)
           targets == { r \in projects : r.id = id }
           rest == projects \ targets
           changed == { Apply(r, dbUpdates) : r \in targets }
       IN  /\ projects' = rest \cup changed
           /\ ret' = LET updated == ProjectFindById(projects', id)
                     IN  IF updated = Nothing
                         THEN Threw("project", "update", id,
                                    "Project not found or was deleted")
                         ELSE Returned("project", "update", id, updated)
    /\ clock' = clock + 1
    /\ UNCHANGED <<taskTypes, tasks, nextId>>

\* update, lines 128-141
ProjectUpdate(id, updates) ==
    /\ clock < MaxClock
    /\ LET dbUpdates == ProjectToDbUpdate(updates, Now)
           targets == { r \in projects : r.id = id /\ r.deleted = FALSE }
           rest == projects \ targets
           changed == { Apply(r, dbUpdates) : r \in targets }
       IN  IF \E r \in changed : \E q \in rest : q.id = r.id
           THEN /\ projects' = projects
                /\ ret' = Threw("project", "update", id, "constraint")
           ELSE /\ projects' = rest \cup changed
                /\ ret' = LET updated == ProjectFindById(projects', id)
                          IN  IF updated = Nothing
                              THEN Threw("project", "update", id, "Project not found or was deleted")
                              ELSE Returned("project", "update", id, updated)
    /\ clock' = clock + 1
    /\ UNCHANGED <<taskTypes, tasks, nextId>>

\* rows.map(toDomain) of the rows of `rows` ordered by createdAt, latest first
RECURSIVE ProjectsLatestFirst(_)
ProjectsLatestFirst(rows) ==
    IF rows = {} THEN <<>>
    ELSE LET first == CHOOSE r \in rows : \A q \in rows : q.createdAt <= r.createdAt
         IN  <<ProjectToDomain(first)>> \o ProjectsLatestFirst(rows \ {first})

\* a faulty findByUserId whose where clause lacks eq(projects.deleted, false)
ProjectFindByUserId_NoDeletedFilter(table, userId) ==
    ProjectsLatestFirst({ r \in table : r.userId = userId })

\* findByUserId, lines 84-90
ProjectFindByUserId(table, userId) ==
    ProjectsLatestFirst({ r \in table : r.userId = userId /\ r.deleted = FALSE })

\* findByWorkspaceId, lines 96-102
ProjectFindByWorkspaceId(table, workspaceId) ==
    ProjectsLatestFirst({ r \in table : r.workspaceId = workspaceId /\ r.deleted = FALSE })

\* count, lines 157-163: the number of rows the select answers
ProjectCount(table, userId) ==
    Cardinality({ r \in table : r.userId = userId /\ r.deleted = FALSE })

\* countByWorkspace, lines 168-174
ProjectCountByWorkspace(table, workspaceId) ==
    Cardinality({ r \in table : r.workspaceId = workspaceId /\ r.deleted = FALSE })

\* a faulty delete that flips the flag instead of setting it
ProjectDelete_Toggle(id) ==
    /\ clock < MaxClock
    /\ projects' = { IF r.id = id
                     THEN Apply(r, [deleted |-> ~ r.deleted, updatedAt |-> Now])
                     ELSE r : r \in projects }
    /\ ret' = Returned("project", "delete", id, Nothing)
    /\ clock' = clock + 1
    /\ UNCHANGED <<taskTypes, tasks, nextId>>

\* a faulty delete that also flags the tasks of the project
ProjectDelete_Cascade(id) ==
    /\ clock < MaxClock
    /\ projects' = { IF r.id = id
                     THEN Apply(r, [deleted |-> TRUE, updatedAt |-> Now])
                     ELSE r : r \in projects }
    /\ tasks' = { IF t.projectId = id
                  THEN Apply(t, [deleted |-> TRUE, updatedAt |-> Now])
                  ELSE t : t \in tasks }
    /\ ret' = Returned("project", "delete", id, Nothing)
    /\ clock' = clock + 1
    /\ UNCHANGED <<taskTypes, nextId>>

\* a faulty delete that removes the row instead of flagging it
ProjectDelete_Hard(id) ==
    /\ clock < MaxClock
    /\ projects' = { r \in projects : r.id # id }
    /\ ret' = Returned("project", "delete", id, Nothing)
    /\ clock' = clock + 1
    /\ UNCHANGED <<taskTypes, tasks, nextId>>

\* delete, lines 147-152: set({ deleted: true, updatedAt: now() })
ProjectDelete(id) ==
    /\ clock < MaxClock
    /\ projects' = { IF r.id = id
                     THEN Apply(r, [deleted |-> TRUE, updatedAt |-> Now])
                     ELSE r : r \in projects }
    /\ ret' = Returned("project", "delete", id, Nothing)
    /\ clock' = clock + 1
    /\ UNCHANGED <<taskTypes, tasks, nextId>>

-----------------------------------------------------------------------------
(* TaskTypeRepository *)

\* the fields of the domain type TaskType other than id, and their values
TaskTypeFields ==
    {"workspaceId", "userId", "name", "icon", "color", "isDefault", "displayOrder"}
TaskTypeValues(f) ==
    CASE f = "workspaceId" -> {"null"}
      [] f = "userId" -> {"u1", "u2"}
      [] f = "name" -> {"tn"}
      [] f = "icon" -> {"ic"}
      [] f = "color" -> {"blue"}
      [] f = "isDefault" -> BOOLEAN
      [] f = "displayOrder" -> {0, 1}

\* Omit<TaskType, 'id'>: the argument of create
NewTaskTypes ==
    [workspaceId : TaskTypeValues("workspaceId"), userId : TaskTypeValues("userId"),
     name : TaskTypeValues("name"), icon : TaskTypeValues("icon"),
     color : TaskTypeValues("color"), isDefault : TaskTypeValues("isDefault"),
     displayOrder : TaskTypeValues("displayOrder")]

\* Partial<TaskType>: the argument of update; one field, or isDefault and
\* displayOrder (the key is the first argument of update; set() rejects an
\* empty partial)
TaskTypeUpdates ==
    UNION { { [c \in {f} |-> v] : v \in TaskTypeValues(f) } : f \in TaskTypeFields }
        \cup { [isDefault |-> d, displayOrder |-> o] :
                 d \in TaskTypeValues("isDefault"), o \in TaskTypeValues("displayOrder") }

\* toDomain, lines 23-34
TaskTypeToDomain(row) ==
    [id |-> row.id, workspaceId |-> row.workspaceId, userId |-> row.userId,
     name |-> row.name, icon |-> row.icon, color |-> row.color,
     isDefault |-> row.isDefault, displayOrder |-> row.displayOrder]

\* toDbInsert, lines 39-50
TaskTypeToDbInsert(taskType, timestamp) ==
    [workspaceId |-> taskType.workspaceId, userId |-> taskType.userId,
     name |-> taskType.name, icon |-> taskType.icon, color |-> taskType.color,
     isDefault |-> taskType.isDefault, displayOrder |-> taskType.displayOrder,
     createdAt |-> timestamp]

\* toDbUpdate, lines 55-57: the partial is passed through as it is
TaskTypeToDbUpdate(taskType) == taskType

\* findById, lines 67-72, on the table contents `table`
TaskTypeFindById(table, id) ==
    LET found == { r \in table : r.id = id }
    IN  IF found = {} THEN Nothing ELSE Some(TaskTypeToDomain(CHOOSE r \in found : TRUE))

\* the row that values({ id, ...dbTaskType }) inserts
TaskTypeInsertRow(id, dbTaskType) ==
    [id |-> id, workspaceId |-> dbTaskType.workspaceId, userId |-> dbTaskType.userId,
     name |-> dbTaskType.name, icon |-> dbTaskType.icon, color |-> dbTaskType.color,
     isDefault |-> dbTaskType.isDefault, displayOrder |-> dbTaskType.displayOrder,
     createdAt |-> dbTaskType.createdAt]

\* create, lines 116-130
TaskTypeCreate(taskType) ==
    /\ nextId <= MaxIds
    /\ clock < MaxClock
    /\ LET id == GenerateId
           row == TaskTypeInsertRow(id, TaskTypeToDbInsert(taskType, Now))
       IN  IF \E r \in taskTypes : r.id = id
           THEN /\ taskTypes' = taskTypes
                /\ ret' = Threw("taskType", "create", id, "constraint")
           ELSE /\ taskTypes' = taskTypes \cup {row}
                /\ ret' = LET created == TaskTypeFindById(taskTypes', id)
                          IN  IF created = Nothing
                              THEN Threw("taskType", "create", id, "Failed to create task type")
                              ELSE Returned("taskType", "create", id, created)
    /\ nextId' = nextId + 1
    /\ clock' = clock + 1
    /\ UNCHANGED <<projects, tasks>>

\* update, lines 135-148
TaskTypeUpdate(id, updates) ==
    /\ LET dbUpdates == TaskTypeToDbUpdate(updates)
           targets == { r \in taskTypes : r.id = id }
           rest == taskTypes \ targets
           changed == { Apply(r, dbUpdates) : r \in targets }
       IN  IF \E r \in changed : \E q \in rest : q.id = r.id
           THEN /\ taskTypes' = taskTypes
                /\ ret' = Threw("taskType", "update", id, "constraint")
           ELSE /\ taskTypes' = rest \cup changed
                /\ ret' = LET updated == TaskTypeFindById(taskTypes', id)
                          IN  IF updated = Nothing
                              THEN Threw("taskType", "update", id, "Task type not found")
                              ELSE Returned("taskType", "update", id, updated)
    /\ UNCHANGED <<projects, tasks, clock, nextId>>

\* delete, lines 153-155
TaskTypeDelete(id) ==
    /\ taskTypes' = { r \in taskTypes : r.id # id }
    /\ ret' = Returned("taskType", "delete", id, Nothing)
    /\ UNCHANGED <<projects, tasks, clock, nextId>>

-----------------------------------------------------------------------------
(* TaskTypeRepository: the multi-statement operations setDefault and reorder *)

\* Each statement of setDefault and reorder is awaited on its own and the
\* repository opens no transaction, so every statement is one step and the
\* statements of other callers may run between two of them. running[c] is
\* the call of caller c: its arguments, the statement it is at (pc, i) and,
\* as history, whether the call cleared the flags while another setDefault
\* call of the same user was between its two statements (race). ret names
\* the call made last; it is pending until that call returns.

\* a faulty first statement whose where clause matches no row
UnsetDefaults_NoMatch(table, userId) == table

\* a faulty second statement whose where clause matches no row
SetDefaultFlag_NoMatch(table, taskTypeId) == table

\* update(taskTypes).set({ isDefault: false }).where(eq(userId, userId))
UnsetDefaults(table, userId) ==
    { IF r.userId = userId THEN Apply(r, [isDefault |-> FALSE]) ELSE r : r \in table }

\* a faulty second statement that also clears the flag of the user's others
SetDefaultFlag_Exclusive(table, taskTypeId) ==
    LET owners == { r.userId : r \in { q \in table : q.id = taskTypeId } }
    IN  { IF r.id = taskTypeId THEN Apply(r, [isDefault |-> TRUE])
          ELSE IF r.userId \in owners THEN Apply(r, [isDefault |-> FALSE])
          ELSE r : r \in table }

\* update(taskTypes).set({ isDefault: true }).where(eq(id, taskTypeId))
SetDefaultFlag(table, taskTypeId) ==
    { IF r.id = taskTypeId THEN Apply(r, [isDefault |-> TRUE]) ELSE r : r \in table }

\* a faulty loop body that numbers the positions from 1
SetDisplayOrder_FromOne(table, taskTypeId, i) ==
    { IF r.id = taskTypeId THEN Apply(r, [displayOrder |-> i + 1]) ELSE r : r \in table }

\* update(taskTypes).set({ displayOrder: i }).where(eq(id, taskTypeIds[i]))
SetDisplayOrder(table, taskTypeId, i) ==
    { IF r.id = taskTypeId THEN Apply(r, [displayOrder |-> i]) ELSE r : r \in table }

\* caller c calls setDefault(userId, taskTypeId)
SetDefaultBegin(c, userId, taskTypeId) ==
    /\ running[c].pc \in {"idle", "done"}
    /\ running' = [running EXCEPT ![c] =
                      [op |-> "setDefault", pc |-> "unset", userId |-> userId,
                       id |-> taskTypeId, ids |-> <<>>, i |-> 0, race |-> FALSE]]
    /\ ret' = InProgress("taskType", "setDefault", taskTypeId)
    /\ UNCHANGED <<projects, taskTypes, tasks, clock, nextId>>

\* setDefault, lines 174-177: the first statement
SetDefaultUnset(c) ==
    /\ running[c].pc = "unset"
    /\ taskTypes' = UnsetDefaults(taskTypes, running[c].userId)
    /\ LET racing == { d \in Callers \ {c} :
                         /\ running[d].op = "setDefault"
                         /\ running[d].pc = "set"
                         /\ running[d].userId = running[c].userId }
       IN  running' = [d \in Callers |->
                         IF d = c
                         THEN [running[c] EXCEPT !.pc = "set", !.race = (racing # {})]
                         ELSE IF d \in racing
                         THEN [running[d] EXCEPT !.race = TRUE]
                         ELSE running[d]]
    /\ UNCHANGED <<projects, tasks, clock, nextId, ret>>

\* setDefault, lines 180-183: the second statement, and the return
SetDefaultSet(c) ==
    /\ running[c].pc = "set"
    /\ taskTypes' = SetDefaultFlag(taskTypes, running[c].id)
    /\ running' = [running EXCEPT ![c].pc = "done"]
    /\ ret' = Returned("taskType", "setDefault", running[c].id, Nothing)
    /\ UNCHANGED <<projects, tasks, clock, nextId>>

\* caller c calls reorder(taskTypeIds)
ReorderBegin(c, taskTypeIds) ==
    /\ running[c].pc \in {"idle", "done"}
    /\ running' = [running EXCEPT ![c] =
                      [op |-> "reorder", pc |-> "loop", userId |-> "none",
                       id |-> 0, ids |-> taskTypeIds, i |-> 0, race |-> FALSE]]
    /\ ret' = InProgress("taskType", "reorder", 0)
    /\ UNCHANGED <<projects, taskTypes, tasks, clock, nextId>>

\* reorder, lines 161-166: one iteration of the loop (i counts from 0)
ReorderStep(c) ==
    /\ running[c].pc = "loop"
    /\ running[c].i < Len(running[c].ids)
    /\ taskTypes' = SetDisplayOrder(taskTypes, running[c].ids[running[c].i + 1],
                                    running[c].i)
    /\ running' = [running EXCEPT ![c].i = running[c].i + 1]
    /\ UNCHANGED <<projects, tasks, clock, nextId, ret>>

\* reorder: the loop condition fails and the call returns
ReorderReturn(c) ==
    /\ running[c].pc = "loop"
    /\ running[c].i >= Len(running[c].ids)
    /\ running' = [running EXCEPT ![c].pc = "done"]
    /\ ret' = Returned("taskType", "reorder", 0, Nothing)
    /\ UNCHANGED <<projects, taskTypes, tasks, clock, nextId>>

-----------------------------------------------------------------------------
(* Sequential use of the repositories *)

\* ids a caller can know of: those generated so far and the id 0, which
\* generateId() never returns
KnownIds == 0..(nextId - 1)

\* The calls of one caller, one after the other. The two tables are
\* independent (no statement of either repository reads or writes the
\* other's table), and the caller works on one table at a time.
RepoNext ==
    \/ \E project \in NewProjects :
         taskTypes = {} /\ ProjectCreate(project) /\ UNCHANGED <<syncVars, authVars, restVars>>
    \/ \E id \in KnownIds, updates \in ProjectUpdates :
         taskTypes = {} /\ ProjectUpdate(id, updates) /\ UNCHANGED <<syncVars, authVars, restVars>>
    \/ \E id \in KnownIds :
         taskTypes = {} /\ ProjectDelete(id) /\ UNCHANGED <<syncVars, authVars, restVars>>
    \/ \E taskType \in NewTaskTypes :
         projects = {} /\ TaskTypeCreate(taskType) /\ UNCHANGED <<syncVars, authVars, restVars>>
    \/ \E id \in KnownIds, updates \in TaskTypeUpdates :
         projects = {} /\ TaskTypeUpdate(id, updates) /\ UNCHANGED <<syncVars, authVars, restVars>>
    \/ \E id \in KnownIds :
         projects = {} /\ TaskTypeDelete(id) /\ UNCHANGED <<syncVars, authVars, restVars>>

InitRepo == RepoInit /\ SyncQuiet /\ AuthQuiet /\ RestQuiet

SpecRepo == InitRepo /\ [][RepoNext]_vars

-----------------------------------------------------------------------------
(* TaskRepository (repositories/task.repo), as its specification and the
   composition tests describe it; table tasks is declared in the schema *)

\* Omit<Task, 'id'>: the argument of create, reduced to the owner, the
\* project reference and the title; projectId is not checked against projects
NewTasks == [userId : {"u1"}, projectId : KnownIds, title : {"t1", "t2"}]

\* toDomain of a tasks row: hides createdAt, updatedAt and deleted
TaskToDomain(row) ==
    [id |-> row.id, userId |-> row.userId, projectId |-> row.projectId,
     title |-> row.title]

\* create: inserts the row under a generated id and answers it re-read
TaskCreate(task) ==
    /\ nextId <= MaxIds
    /\ clock < MaxClock
    /\ LET row == [id |-> GenerateId, userId |-> task.userId,
                   projectId |-> task.projectId, title |-> task.title,
                   createdAt |-> Now, updatedAt |-> Now, deleted |-> FALSE]
       IN  /\ tasks' = tasks \cup {row}
           /\ ret' = Returned("task", "create", row.id, Some(TaskToDomain(row)))
    /\ nextId' = nextId + 1
    /\ clock' = clock + 1
    /\ UNCHANGED <<projects, taskTypes>>

\* the domain objects of `rows`, latest created first
RECURSIVE TasksLatestFirst(_)
TasksLatestFirst(rows) ==
    IF rows = {} THEN <<>>
    ELSE LET first == CHOOSE r \in rows : \A q \in rows : q.createdAt <= r.createdAt
         IN  <<TaskToDomain(first)>> \o TasksLatestFirst(rows \ {first})

\* findByProjectId: the tasks of the project that are not flagged deleted
TaskFindByProjectId(table, projectId) ==
    TasksLatestFirst({ t \in table : t.projectId = projectId /\ t.deleted = FALSE })

\* Projects and tasks are created and projects deleted, one call at a time.
CascadeNext ==
    \/ \E project \in NewProjects :
         ProjectCreate(project) /\ UNCHANGED <<syncVars, authVars, restVars>>
    \/ \E task \in NewTasks :
         TaskCreate(task) /\ UNCHANGED <<syncVars, authVars, restVars>>
    \/ \E id \in KnownIds :
         ProjectDelete(id) /\ UNCHANGED <<syncVars, authVars, restVars>>

SpecCascade == InitRepo /\ [][CascadeNext]_vars

-----------------------------------------------------------------------------
(* TaskTypeRepository used by one caller, one call after the other *)

\* longest list of ids passed to reorder
MaxReorder == 2

\* the lists of ids a caller passes to reorder (an id may be listed twice)
ReorderLists == UNION { [1..n -> KnownIds] : n \in 0..MaxReorder }

\* no setDefault or reorder call is between two of its statements
Quiescent == \A c \in Callers : running[c].pc \in {"idle", "done"}

\* the one caller of the sequential runs
SoleCaller == 1

\* the caller's record once it has made a single-statement call
Forgotten == [running EXCEPT ![SoleCaller] = IdleCall]

\* Every call is made when the call before it has returned.
TaskTypeNext ==
    \/ \E taskType \in NewTaskTypes :
         /\ Quiescent /\ TaskTypeCreate(taskType) /\ running' = Forgotten
         /\ UNCHANGED <<syncVars, authVars, providerVars, storeVars>>
    \/ \E id \in KnownIds, updates \in TaskTypeUpdates :
         /\ Quiescent /\ TaskTypeUpdate(id, updates) /\ running' = Forgotten
         /\ UNCHANGED <<syncVars, authVars, providerVars, storeVars>>
    \/ \E id \in KnownIds :
         /\ Quiescent /\ TaskTypeDelete(id) /\ running' = Forgotten
         /\ UNCHANGED <<syncVars, authVars, providerVars, storeVars>>
    \/ \E userId \in TaskTypeValues("userId"), id \in KnownIds :
         /\ SetDefaultBegin(SoleCaller, userId, id)
         /\ UNCHANGED <<syncVars, authVars, providerVars, storeVars>>
    \/ SetDefaultUnset(SoleCaller) /\ UNCHANGED <<syncVars, authVars, providerVars, storeVars>>
    \/ SetDefaultSet(SoleCaller) /\ UNCHANGED <<syncVars, authVars, providerVars, storeVars>>
    \/ \E ids \in ReorderLists :
         /\ ReorderBegin(SoleCaller, ids)
         /\ UNCHANGED <<syncVars, authVars, providerVars, storeVars>>
    \/ ReorderStep(SoleCaller) /\ UNCHANGED <<syncVars, authVars, providerVars, storeVars>>
    \/ ReorderReturn(SoleCaller) /\ UNCHANGED <<syncVars, authVars, providerVars, storeVars>>

SpecTaskType == InitRepo /\ [][TaskTypeNext]_vars

-----------------------------------------------------------------------------
(* setDefault called by two callers with no transaction around the calls *)

\* Rows are created between calls (displayOrder plays no part here and is
\* left 0); the statements of the two callers' setDefault calls run in any
\* order that keeps each call's own order.
RaceNext ==
    \/ \E taskType \in { t \in NewTaskTypes : t.displayOrder = 0 } :
         /\ Quiescent /\ TaskTypeCreate(taskType) /\ UNCHANGED running
         /\ UNCHANGED <<syncVars, authVars, providerVars, storeVars>>
    \/ \E c \in Callers, userId \in TaskTypeValues("userId"), id \in KnownIds :
         /\ SetDefaultBegin(c, userId, id)
         /\ UNCHANGED <<syncVars, authVars, providerVars, storeVars>>
    \/ \E c \in Callers :
         SetDefaultUnset(c) /\ UNCHANGED <<syncVars, authVars, providerVars, storeVars>>
    \/ \E c \in Callers :
         SetDefaultSet(c) /\ UNCHANGED <<syncVars, authVars, providerVars, storeVars>>

SpecRace == InitRepo /\ [][RaceNext]_vars

-----
(* Properties of uploadData *)

Range(f) == { f[i] : i \in DOMAIN f }

\* the remote call `c` is what the claim prescribes for the CRUD entry `op`
Prescribed(op, c) ==
    /\ c.table = op.table
    /\ op.op = "PUT" =>
          /\ c.method = "upsert"
          /\ c.onConflict = "id"
          /\ c.values.id = op.id
          /\ c.values.record = op.opData
    /\ op.op = "PATCH" =>
          /\ c.method = "update"
          /\ c.eqId = op.id
          /\ c.values.record = op.opData
    /\ op.op = "DELETE" =>
          /\ c.method = "delete"
          /\ c.eqId = op.id

\* C1: the remote calls of an uploadData call are, one per operation and in
\* the batch's order, the calls prescribed for the operations of the batch
\* (PUT: upsert keyed on id, PATCH: update of the row with that id, DELETE:
\* delete of the row with that id, each on the operation's table); a call
\* that returned after fetching a batch has sent all of its operations.
C1_ReplayInOrder ==
    /\ Len(calls) <= Len(tx.crud)
    /\ \A i \in 1..Len(calls) : Prescribed(tx.crud[i], calls[i].request)
    /\ pc = "loop" => Len(calls) = idx - 1
    /\ (upResult.status = "returned" /\ tx # NoTx) => Len(calls) = Len(tx.crud)

C1_Witness ==
    /\ upResult.status = "returned"
    /\ Len(tx.crud) = 3
    /\ tx.crud[1].op = "PUT" /\ tx.crud[2].op = "PATCH" /\ tx.crud[3].op = "DELETE"
    /\ \A i \in 1..3 : tx.crud[i].table = "tasks" /\ tx.crud[i].id = "A"
    /\ Len(calls) = 3

\* C2: when the remote store reports an error for an operation, that call is
\* the last one uploadData sends, the batch is not marked complete, and the
\* call ends by raising that same error.
C2_AbortOnError ==
    \A i \in 1..Len(calls) :
        calls[i].error # NoError =>
            /\ i = Len(calls)
            /\ pc = "idle"
            /\ upResult = [status |-> "threw", error |-> calls[i].error]
            /\ tx.id \notin Range(completed)

C2_Witness ==
    /\ upResult.status = "threw"
    /\ upResult.error = "e2"
    /\ Len(tx.crud) = 3
    /\ Len(calls) = 2

\* C3: after a failed uploadData call the batch is still the head of the
\* queue, and the next call fetches that same batch and sends its operations
\* again from the first one.
C3_RetryResubmitsAll ==
    /\ upResult.status = "threw" => (queue # <<>> /\ Head(queue) = tx)
    /\ prev.status = "threw" =>
          /\ tx.id = prev.txid
          /\ Len(calls) <= Len(tx.crud)
          /\ \A i \in 1..Len(calls) : Prescribed(tx.crud[i], calls[i].request)
          /\ pc = "loop" => Len(calls) = idx - 1
          /\ upResult.status = "returned" => Len(calls) = Len(tx.crud)

C3_Witness ==
    /\ prev.status = "threw"
    /\ prev.ncalls = 3
    /\ Len(tx.crud) = 3
    /\ tx.crud[1].op = "PUT" /\ tx.crud[2].op = "PATCH" /\ tx.crud[3].op = "DELETE"
    /\ \A i \in 1..3 : tx.crud[i].table = "projects" /\ tx.crud[i].id = "A"
    /\ Len(calls) = 3
    /\ upResult.status = "returned"

\* ids of the transactions the engine holds as pending
Pending == { queue[i].id : i \in 1..Len(queue) }

\* C4: every transaction the engine has queued is either still pending or
\* marked complete, never both and never neither; a transaction is marked
\* complete only by a step of an uploadData call that has sent every one of
\* its operations, in order, with no error from the remote store, and only
\* if it has not been marked complete before.
C4_NoSilentDrop ==
    /\ [](\A id \in 1..(nextTx - 1) :
            (id \in Pending) # (id \in Range(completed)))
    /\ [][completed' # completed =>
            /\ completed' = Append(completed, tx.id)
            /\ tx.id \in Pending
            /\ tx.id \notin Range(completed)
            /\ Len(calls) = Len(tx.crud)
            /\ \A i \in 1..Len(tx.crud) :
                  /\ calls[i].error = NoError
                  /\ Prescribed(tx.crud[i], calls[i].request)]_vars

C4_Witness ==
    /\ Len(completed) = 2
    /\ prev.status = "threw"
    /\ upResult.status = "returned"
    /\ tx.id = completed[2]
    /\ Len(tx.crud) = 2

\* C5: an uploadData call that finds no pending transaction sends nothing to
\* the remote store, marks nothing complete, raises no error and returns.
C5_NoBatchNoOp ==
    [][(pc = "idle" /\ queue = <<>>
            /\ <<pc, tx, idx, calls, upResult, prev>>' # <<pc, tx, idx, calls, upResult, prev>>)
        => /\ calls' = <<>>
           /\ completed' = completed
           /\ queue' = queue
           /\ pc' = "idle"
           /\ upResult' = [status |-> "returned", error |-> NoError]]_vars

C5_Witness ==
    /\ tx = NoTx
    /\ upResult.status = "returned"
    /\ prev.status = "returned"
    /\ prev.ncalls = 2
    /\ Len(completed) = 1
    /\ queue = <<>>

-----------------------------------------------------------------------------
(* Properties of fetchCredentials *)

\* C6: a fetchCredentials call ends in exactly one of three ways, decided by
\* the session lookup: the lookup's error is raised; or, with no error and no
\* session, null is returned; or, with no error and a session, a credential
\* is returned whose token is the session's access token and whose endpoint
\* is the configured sync endpoint.
C6_FetchCredentials ==
    credResult # Nothing =>
        LET l == credResult[1].lookup
            r == credResult[1].result
        IN  /\ l.error # NoError =>
                  /\ r.status = "threw"
                  /\ r.error = l.error
            /\ (l.error = NoError /\ l.session = Nothing) =>
                  /\ r.status = "returned"
                  /\ r.error = NoError
                  /\ r.value = Nothing
            /\ (l.error = NoError /\ l.session # Nothing) =>
                  /\ r.status = "returned"
                  /\ r.error = NoError
                  /\ r.value # Nothing
                  /\ r.value[1].token = l.session[1].access_token
                  /\ r.value[1].endpoint = powersyncUrl

C6_Witness ==
    /\ credResult # Nothing
    /\ credResult[1].lookup.error = NoError
    /\ credResult[1].lookup.session # Nothing
    /\ credResult[1].result.value # Nothing
    /\ credResult[1].result.value[1].token = "t2"
    /\ credResult[1].result.value[1].endpoint = "https://ps2"
    /\ session = Nothing

-----------------------------------------------------------------------------
(* Properties of the repositories *)

\* the stored row with key `id`, whatever its deleted flag (the direct query)
RowsWithId(table, id) == { r \in table : r.id = id }

\* C7: a step delete(id) of ProjectRepository on a stored row leaves
\* findById(id) answering null, while the row is still stored under that id
\* with deleted = true and with every domain field as it was.
C7_SoftDelete ==
    [][\A id \in KnownIds :
         (ProjectDelete(id) /\ RowsWithId(projects, id) # {}) =>
            /\ ProjectFindById(projects', id) = Nothing
            /\ \E r \in RowsWithId(projects, id) :
               \E q \in RowsWithId(projects', id) :
                  /\ q.deleted = TRUE
                  /\ \A f \in ProjectFields \cup {"id"} : q[f] = r[f]]_vars

C7_Witness ==
    /\ ret.repo = "project" /\ ret.op = "delete" /\ ret.id = 1
    /\ ProjectFindById(projects, 1) = Nothing
    /\ \E r \in projects :
         r.id = 1 /\ r.deleted = TRUE /\ r.name = "n2" /\ r.description = "d1"
    /\ \E r \in projects : r.id = 2 /\ r.deleted = FALSE

\* C8: a step update(id, {f: v}) on a stored row (not soft-deleted, for a
\* Project) sets field f of that row to v and leaves every other column of
\* the row (id, deleted, createdAt and the other fields) and every other row
\* as it was; for a Project, updatedAt of the row becomes later than it was.
C8_UpdateOneField ==
    [][/\ \A id \in KnownIds : \A f \in ProjectFields : \A v \in ProjectValues(f) :
            (/\ ret'.repo = "project" /\ ret'.op = "update" /\ ret'.id = id
             /\ \E r \in projects : r.id = id /\ r.deleted = FALSE
             /\ ProjectUpdate(id, [c \in {f} |-> v])) =>
                \E r \in RowsWithId(projects, id) :
                \E q \in RowsWithId(projects', id) :
                   /\ q[f] = v
                   /\ \A g \in (DOMAIN r) \ {f, "updatedAt"} : q[g] = r[g]
                   /\ DOMAIN q = DOMAIN r
                   /\ q.updatedAt > r.updatedAt
                   /\ projects' \ {q} = projects \ {r}
                   /\ taskTypes' = taskTypes
       /\ \A id \in KnownIds : \A f \in TaskTypeFields : \A v \in TaskTypeValues(f) :
            (/\ ret'.repo = "taskType" /\ ret'.op = "update" /\ ret'.id = id
             /\ RowsWithId(taskTypes, id) # {}
             /\ TaskTypeUpdate(id, [c \in {f} |-> v])) =>
                \E r \in RowsWithId(taskTypes, id) :
                \E q \in RowsWithId(taskTypes', id) :
                   /\ q[f] = v
                   /\ \A g \in (DOMAIN r) \ {f} : q[g] = r[g]
                   /\ DOMAIN q = DOMAIN r
                   /\ taskTypes' \ {q} = taskTypes \ {r}
                   /\ projects' = projects]_vars

C8_Witness ==
    /\ ret.repo = "project" /\ ret.op = "update" /\ ret.status = "ok" /\ ret.id = 2
    /\ \E r \in projects :
         /\ r.id = 2 /\ r.name = "n2" /\ r.userId = "u1" /\ r.description = "null"
         /\ r.updatedAt > r.createdAt
    /\ \E r \in projects : r.id = 1 /\ r.name = "n1" /\ r.updatedAt = r.createdAt

\* C9: a step update(id, updates) when no row has that id, or (Project) when
\* the row with that id is soft-deleted, ends with the repository's not-found
\* error and leaves both tables as they were.
C9_UpdateNotFound ==
    [][/\ \A id \in KnownIds : \A updates \in ProjectUpdates :
            (/\ ret'.repo = "project" /\ ret'.op = "update" /\ ret'.id = id
             /\ ~ \E r \in projects : r.id = id /\ r.deleted = FALSE
             /\ ProjectUpdate(id, updates)) =>
                /\ ret'.status = "error"
                /\ ret'.error = "Project not found or was deleted"
                /\ projects' = projects
                /\ taskTypes' = taskTypes
       /\ \A id \in KnownIds : \A updates \in TaskTypeUpdates :
            (/\ ret'.repo = "taskType" /\ ret'.op = "update" /\ ret'.id = id
             /\ RowsWithId(taskTypes, id) = {}
             /\ TaskTypeUpdate(id, updates)) =>
                /\ ret'.status = "error"
                /\ ret'.error = "Task type not found"
                /\ projects' = projects
                /\ taskTypes' = taskTypes]_vars

C9_Witness ==
    /\ ret.repo = "project" /\ ret.op = "update" /\ ret.status = "error"
    /\ ret.error = "Project not found or was deleted"
    /\ \E r \in projects : r.id = ret.id /\ r.deleted = TRUE

\* C10: a step create(e) returns an entity whose id was not handed out
\* before, and findById on that id right after the step answers a domain
\* object with exactly the domain fields, each equal to the field of e.
C10_CreateRoundTrip ==
    [][/\ \A project \in NewProjects :
            ProjectCreate(project) =>
                /\ ret'.status = "ok"
                /\ ret'.value # Nothing
                /\ ret'.value[1].id \notin KnownIds
                /\ RowsWithId(projects, ret'.value[1].id) = {}
                /\ ProjectFindById(projects', ret'.value[1].id) = ret'.value
                /\ DOMAIN ret'.value[1] = ProjectFields \cup {"id"}
                /\ \A f \in ProjectFields : ret'.value[1][f] = project[f]
       /\ \A taskType \in NewTaskTypes :
            TaskTypeCreate(taskType) =>
                /\ ret'.status = "ok"
                /\ ret'.value # Nothing
                /\ ret'.value[1].id \notin KnownIds
                /\ RowsWithId(taskTypes, ret'.value[1].id) = {}
                /\ TaskTypeFindById(taskTypes', ret'.value[1].id) = ret'.value
                /\ DOMAIN ret'.value[1] = TaskTypeFields \cup {"id"}
                /\ \A f \in TaskTypeFields : ret'.value[1][f] = taskType[f]]_vars

C10_Witness ==
    /\ ret.repo = "project" /\ ret.op = "create" /\ ret.status = "ok"
    /\ ret.value # Nothing
    /\ ret.value[1].id = 2
    /\ ret.value[1].description = "d1"
    /\ ret.value[1].userId = "u2"
    /\ ProjectFindById(projects, 2) = ret.value
    /\ Cardinality(projects) = 2

-----------------------------------------------------------------------------
(* Properties of setDefault and reorder *)

\* ids of the task types of user u that are flagged isDefault
Defaults(table, u) == { r.id : r \in { q \in table : q.userId = u /\ q.isDefault } }

\* the task type `id` is stored and owned by user u
OwnTarget(table, u, id) == \E r \in table : r.id = id /\ r.userId = u

\* C11: between calls of TaskTypeRepository made one after the other, no user
\* owns two task types that are both flagged isDefault = true.
C11_AtMostOneDefault ==
    Quiescent =>
        \A u \in TaskTypeValues("userId") : Cardinality(Defaults(taskTypes, u)) <= 1

\* C12 as stated: when a setDefault(userId, taskTypeId) call that ran alone
\* has returned, the flagged task types of userId are exactly the target,
\* for every pair of arguments.
C12_SetDefaultExactlyTarget ==
    \A c \in Callers :
        (running[c].op = "setDefault" /\ running[c].pc = "done") =>
            Defaults(taskTypes, running[c].userId) = {running[c].id}

\* C12, amended: when a setDefault(userId, taskTypeId) call that ran alone
\* has returned and taskTypeId is a stored task type owned by userId, the
\* flagged task types of userId are exactly the target.
C12_SetDefaultOwnTarget ==
    \A c \in Callers :
        (/\ running[c].op = "setDefault" /\ running[c].pc = "done"
         /\ OwnTarget(taskTypes, running[c].userId, running[c].id)) =>
            Defaults(taskTypes, running[c].userId) = {running[c].id}

C12_Witness ==
    /\ running[SoleCaller].op = "setDefault" /\ running[SoleCaller].pc = "done"
    /\ running[SoleCaller].userId = "u1" /\ running[SoleCaller].id = 2
    /\ \E r \in taskTypes : r.id = 1 /\ r.userId = "u1" /\ ~ r.isDefault
    /\ \E r \in taskTypes : r.id = 2 /\ r.userId = "u1" /\ r.isDefault

\* both callers' setDefault calls have returned; they were for the same user
\* and each targeted a stored task type of that user
BothReturned ==
    /\ \A c \in Callers : running[c].op = "setDefault" /\ running[c].pc = "done"
    /\ running[1].userId = running[2].userId
    /\ \A c \in Callers : OwnTarget(taskTypes, running[c].userId, running[c].id)

\* each of the two calls cleared the flags before the other set its flag
Raced == \A c \in Callers : running[c].race

\* C13: when two setDefault calls for the same user with different targets
\* have both returned and their statements interleaved so that both cleared
\* the flags before either set its flag, both targets are flagged: the user
\* has more than one default.
C13_RaceLeavesTwoDefaults ==
    (BothReturned /\ Raced /\ running[1].id # running[2].id) =>
        /\ {running[1].id, running[2].id} \subseteq Defaults(taskTypes, running[1].userId)
        /\ Cardinality(Defaults(taskTypes, running[1].userId)) > 1

C13_Witness ==
    /\ BothReturned /\ Raced
    /\ running[1].userId = "u1"
    /\ running[1].id = 1 /\ running[2].id = 2
    /\ Defaults(taskTypes, "u1") = {1, 2}

\* the orders in which the four statements of two setDefault calls can run:
\* each call clears (unset) before it sets
Statements == { <<c, k>> : c \in Callers, k \in {"unset", "set"} }
Position(sched, st) == CHOOSE p \in 1..Len(sched) : sched[p] = st
Interleavings ==
    { sched \in [1..4 -> Statements] :
        /\ \A st \in Statements : \E p \in 1..4 : sched[p] = st
        /\ \A c \in Callers :
              Position(sched, <<c, "unset">>) < Position(sched, <<c, "set">>) }

\* the table after the statements of `sched` have run on `table` in order
RECURSIVE RunSchedule(_, _)
RunSchedule(table, sched) ==
    IF sched = <<>> THEN table
    ELSE LET c == Head(sched)[1]
             next == IF Head(sched)[2] = "unset"
                     THEN UnsetDefaults(table, running[c].userId)
                     ELSE SetDefaultFlag(table, running[c].id)
         IN  RunSchedule(next, Tail(sched))

\* both callers have called setDefault for the same user, each with a stored
\* task type of that user as target, and no statement of either has run
BothCalled ==
    /\ \A c \in Callers : running[c].op = "setDefault" /\ running[c].pc = "unset"
    /\ running[1].userId = running[2].userId
    /\ \A c \in Callers : OwnTarget(taskTypes, running[c].userId, running[c].id)

\* C14 as stated: two concurrent setDefault calls for the same user, each
\* with a stored task type of that user as target, can finish with none of
\* the user's task types flagged: some interleaving of their four statements
\* ends in such a state.
C14_ZeroDefaultsPossible ==
    BothCalled =>
        \E sched \in Interleavings :
            Defaults(RunSchedule(taskTypes, sched), running[1].userId) = {}

\* C14, amended: when two setDefault calls for the same user, each with a
\* stored task type of that user as target, have both returned, at least one
\* of the user's task types is flagged, however their statements interleaved;
\* and no interleaving of the four statements ends with none flagged.
C14_NeverZeroDefaults ==
    /\ BothReturned => Defaults(taskTypes, running[1].userId) # {}
    /\ BothCalled =>
          \A sched \in Interleavings :
              Defaults(RunSchedule(taskTypes, sched), running[1].userId) # {}

C14_Witness ==
    /\ BothReturned /\ Raced
    /\ running[1].userId = "u2"
    /\ running[1].id = 1 /\ running[2].id = 1
    /\ \E r \in taskTypes : r.id = 2 /\ r.userId = "u2"
    /\ Defaults(taskTypes, "u2") = {1}

\* the last of the first n positions of ids at which id is listed (0: none)
LastPosition(ids, n, id) ==
    LET at == { p \in 1..n : ids[p] = id }
    IN  IF at = {} THEN 0 ELSE CHOOSE p \in at : \A q \in at : q <= p

\* C15: a reorder(orderedIds) call that runs alone issues its updates one per
\* id in list order: each step renumbers the task type listed next (if
\* stored) to its position counted from 0, changes no other column and no
\* other row, and nothing else changes the table during the call. So after
\* i updates exactly the first i ids have been renumbered (a prefix, visible
\* between updates), and once the call has returned every listed stored task
\* type has the position of its id (the last one, if listed twice).
C15_Reorder ==
    /\ [](\A c \in Callers :
            running[c].op = "reorder" =>
                /\ running[c].i <= Len(running[c].ids)
                /\ running[c].pc = "done" => running[c].i = Len(running[c].ids)
                /\ \A r \in taskTypes :
                      LET p == LastPosition(running[c].ids, running[c].i, r.id)
                      IN  p # 0 => r.displayOrder = p - 1)
    /\ [][\A c \in Callers :
            (running[c].op = "reorder" /\ running'[c].op = "reorder"
                /\ running[c].pc = "loop") =>
                LET i == running[c].i
                    ids == running[c].ids
                IN  \/ /\ running'[c].i = i + 1
                       /\ running'[c].ids = ids
                       /\ running'[c].pc = "loop"
                       /\ i < Len(ids)
                       /\ \A r \in taskTypes :
                             IF r.id = ids[i + 1]
                             THEN [r EXCEPT !.displayOrder = i] \in taskTypes'
                             ELSE r \in taskTypes'
                       /\ Cardinality(taskTypes') = Cardinality(taskTypes)
                    \/ /\ running'[c] = [running[c] EXCEPT !.pc = "done"]
                       /\ i = Len(ids)
                       /\ taskTypes' = taskTypes]_vars

C15_Witness ==
    /\ running[SoleCaller].op = "reorder" /\ running[SoleCaller].pc = "done"
    /\ running[SoleCaller].ids = <<2, 1>>
    /\ ret = Returned("taskType", "reorder", 0, Nothing)
    /\ \E r \in taskTypes : r.id = 2 /\ r.displayOrder = 0 /\ r.userId = "u2" /\ r.isDefault
    /\ \E r \in taskTypes : r.id = 1 /\ r.displayOrder = 1 /\ r.userId = "u1"

-----------------------------------------------------------------------------
(* Properties of the read paths and of soft deletion *)

\* the stored rows that are not flagged deleted
Live(table) == { r \in table : r.deleted = FALSE }

\* C16: after any sequence of Project create, update and delete calls, every
\* object findById, findByUserId and findByWorkspaceId answer is the domain
\* object of a stored row of that scope whose deleted flag is false, no such
\* row is left out, count(userId) is the number of stored rows of that user
\* with deleted = false, and count(userId) is the length of
\* findByUserId(userId); likewise for the workspace scope.
C16_ReadsSkipDeleted ==
    /\ \A id \in KnownIds :
          LET found == ProjectFindById(projects, id)
          IN  /\ found # Nothing =>
                    \E r \in Live(projects) : r.id = id /\ found[1] = ProjectToDomain(r)
              /\ found = Nothing => ~ \E r \in Live(projects) : r.id = id
    /\ \A u \in ProjectValues("userId") :
          LET list == ProjectFindByUserId(projects, u)
          IN  /\ \A i \in 1..Len(list) :
                    \E r \in Live(projects) :
                        r.userId = u /\ list[i] = ProjectToDomain(r)
              /\ \A r \in Live(projects) :
                    r.userId = u => \E i \in 1..Len(list) : list[i].id = r.id
              /\ ProjectCount(projects, u) =
                    Cardinality({ r \in projects : r.userId = u /\ ~ r.deleted })
              /\ ProjectCount(projects, u) = Len(list)
    /\ \A w \in ProjectValues("workspaceId") :
          LET list == ProjectFindByWorkspaceId(projects, w)
          IN  /\ \A i \in 1..Len(list) :
                    \E r \in Live(projects) :
                        r.workspaceId = w /\ list[i] = ProjectToDomain(r)
              /\ ProjectCountByWorkspace(projects, w) = Len(list)

C16_Witness ==
    /\ \E r \in projects : r.id = 1 /\ r.userId = "u1" /\ r.deleted
    /\ \E r \in projects : r.id = 2 /\ r.userId = "u1" /\ ~ r.deleted
    /\ ProjectFindById(projects, 1) = Nothing
    /\ Len(ProjectFindByUserId(projects, "u1")) = 1
    /\ ProjectFindByUserId(projects, "u1")[1].id = 2
    /\ ProjectCount(projects, "u1") = 1
    /\ Len(ProjectFindByWorkspaceId(projects, "w1")) = 1

\* C20: a Project row that is flagged deleted stays stored and flagged in
\* every step of create, update and delete; no step changes any of its
\* columns other than updatedAt, an update changes none at all, and
\* updatedAt changes only in a delete of that row, which restamps it.
C20_SoftDeleteIsPermanent ==
    [][\A r \in projects :
          r.deleted =>
             \E q \in projects' :
                /\ q.id = r.id
                /\ q.deleted
                /\ DOMAIN q = DOMAIN r
                /\ \A f \in (DOMAIN r) \ {"updatedAt"} : q[f] = r[f]
                /\ ret'.op = "update" => q = r
                /\ q.updatedAt # r.updatedAt =>
                      (ret'.op = "delete" /\ ret'.id = r.id)
                /\ (clock' # clock /\ ret'.op = "delete" /\ ret'.id = r.id) =>
                      q.updatedAt = clock']_vars

C20_Witness ==
    /\ ret.repo = "project" /\ ret.op = "delete" /\ ret.id = 1
    /\ \E r \in projects :
         /\ r.id = 1 /\ r.deleted /\ r.name = "n2"
         /\ r.createdAt = 1 /\ r.updatedAt = 4
    /\ Cardinality(projects) = 1

\* C19: a step create(T) of a task referencing a stored project P that no
\* stored task references yet leaves findByProjectId(P.id) answering exactly
\* [T]; a step delete(P.id) of ProjectRepository changes, in P's row alone,
\* only deleted and updatedAt, leaves every other projects row and every
\* tasks row as it was, and so leaves findByProjectId of every project as it
\* was.
C19_NoCascade ==
    [][/\ \A task \in NewTasks :
            (/\ ret'.repo = "task" /\ ret'.op = "create"
             /\ \E r \in projects : r.id = task.projectId
             /\ ~ \E t \in tasks : t.projectId = task.projectId
             /\ TaskCreate(task)) =>
                /\ ret'.value[1].projectId = task.projectId
                /\ TaskFindByProjectId(tasks', task.projectId) = <<ret'.value[1]>>
       /\ \A id \in KnownIds :
            (/\ ret'.repo = "project" /\ ret'.op = "delete" /\ ret'.id = id
             /\ ProjectDelete(id)) =>
                /\ tasks' = tasks
                /\ \A p \in KnownIds :
                      TaskFindByProjectId(tasks', p) = TaskFindByProjectId(tasks, p)
                /\ \A r \in projects :
                      IF r.id = id
                      THEN \E q \in projects' :
                              /\ DOMAIN q = DOMAIN r
                              /\ \A f \in (DOMAIN r) \ {"deleted", "updatedAt"} :
                                    q[f] = r[f]
                      ELSE r \in projects'
                /\ Cardinality(projects') = Cardinality(projects)]_vars

C19_Witness ==
    /\ ret.repo = "project" /\ ret.op = "delete" /\ ret.id = 1
    /\ \E r \in projects : r.id = 1 /\ r.deleted
    /\ \E t \in tasks : t.id = 2 /\ t.projectId = 1 /\ ~ t.deleted
    /\ TaskFindByProjectId(tasks, 1) =
          <<[id |-> 2, userId |-> "u1", projectId |-> 1, title |-> "t2"]>>

-----------------------------------------------------------------------------
(* Properties of the auth provider *)

\* C17: whenever the backend's answer to signIn, signOut, getCurrentSession
\* or refreshSession carries an error, the call ends by raising that error
\* and does not return normally.
C17_ErrorsPropagate ==
    authRet # Nothing =>
        (authRet[1].answer.error # NoError =>
            /\ authRet[1].result.status = "threw"
            /\ authRet[1].result.error = authRet[1].answer.error)

\* C18: from the onAuthChange call to the call of its teardown function the
\* callback has been invoked once for each auth state the backend has
\* notified, in order, with the mapped session when there is one and with
\* null otherwise, so the value delivered last is the current auth state;
\* once the teardown function has been called no step invokes the callback.
C18_AuthChangeDelivery ==
    /\ [](subscription.phase = "subscribed" =>
            /\ Len(delivered) = Len(events)
            /\ \A i \in 1..Len(events) :
                  delivered[i] = IF events[i] = Nothing
                                 THEN Nothing
                                 ELSE Some(MapSession(events[i][1]))
            /\ delivered # <<>> =>
                  /\ events[Len(events)] = session
                  /\ (delivered[Len(delivered)] = Nothing) = (session = Nothing))
    /\ [][subscription.phase = "torndown" => delivered' = delivered]_vars

C18_Witness ==
    /\ subscription.phase = "torndown"
    /\ Len(delivered) = 2
    /\ delivered[1] # Nothing /\ delivered[1][1].accessToken = "t3"
    /\ delivered[1][1].expiresAt = 5000
    /\ delivered[2] = Nothing
    /\ session # Nothing
    /\ authRet # Nothing /\ authRet[1].op = "signIn"
    /\ authRet[1].result.status = "returned"

-----------------------------------------------------------------------------
(* C21: replaying a batch after a failed upload *)

\* the remote store after the requests of a batch, each accepted, in order
RECURSIVE ApplyBatch(_, _)
ApplyBatch(store, crud) ==
    IF crud = <<>>
      THEN store
      ELSE ApplyBatch(ApplyRequest(store, RemoteRequest(Head(crud))), Tail(crud))

\* the last uploadData call marked the batch complete and the call before
\* it failed on the same batch
ReplayedAfterFailure ==
    /\ pc = "idle"
    /\ upResult.status = "returned"
    /\ tx.id # 0
    /\ tx.id \in Range(completed)
    /\ prev.status = "threw"
    /\ prev.txid = tx.id

\* every PATCH of a row the original store lacks comes after a PUT or a
\* DELETE of that row
PatchesFollow(store, crud) ==
    \A i \in 1..Len(crud) :
        (crud[i].op = "PATCH" /\ store[<<crud[i].table, crud[i].id>>] = Nothing)
            => \E j \in 1..(i - 1) :
                 /\ crud[j].op \in {"PUT", "DELETE"}
                 /\ crud[j].table = crud[i].table
                 /\ crud[j].id = crud[i].id

\* C21 (as stated): when an uploadData call fails part-way and a later call
\* replays the whole batch successfully, the remote store equals the
\* original store with the batch applied once, for every batch.
C21_ReplayIdempotent ==
    ReplayedAfterFailure => remote = ApplyBatch(original, tx.crud)

\* C21 (amended): the same, for every batch in which each PATCH of a row
\* absent from the original store is preceded by a PUT or DELETE of that row.
C21_ReplayIdempotentAfterPut ==
    (ReplayedAfterFailure /\ PatchesFollow(original, tx.crud))
        => remote = ApplyBatch(original, tx.crud)

\* a batch with a PATCH was replayed after a call that had applied two of
\* its operations, and the store has changed
C21_Witness ==
    /\ ReplayedAfterFailure
    /\ PatchesFollow(original, tx.crud)
    /\ prev.ncalls >= 3
    /\ \E i \in 1..Len(tx.crud) : tx.crud[i].op = "PATCH"
    /\ remote # original
    /\ remote = ApplyBatch(original, tx.crud)


-----------------------------------------------------------------------------
(* C22: the frame of setDefault *)

\* C22: no statement of a setDefault(userId, taskTypeId) call changes the
\* isDefault flag of a task type owned by a user other than userId, for
\* every pair of arguments.
C22_SetDefaultFrame ==
    [][\A c \in Callers :
        (/\ running[c].op = "setDefault"
         /\ running[c].pc \in {"unset", "set"}
         /\ running'[c].pc # running[c].pc)
            => \A r \in taskTypes :
                 r.userId # running[c].userId
                    => \E q \in taskTypes' :
                         q.id = r.id /\ q.isDefault = r.isDefault]_vars

====
